---- MODULE Spec2Model ----
(***************************************************************************)
(* Contract lifecycle engine of the MIA gateway (mcpgw).                   *)
(*                                                                         *)
(* The model follows src/src/mcpgw/core/intent_broker.py (IntentBroker)    *)
(* and src/src/mcpgw/core/intent_contract.py (IntentContract).  The        *)
(* broker runs on one asyncio event loop: a handler executes atomically    *)
(* between two awaits, and the only awaits inside the broker are the calls *)
(* to the Semantic Analyzer.  Every handler is therefore split at its      *)
(* Analyzer call into a "Call" action (code up to the await) and a         *)
(* "Return" action (code after the await); the coroutines suspended at     *)
(* their Analyzer call are the elements of `inflight`.                     *)
(*                                                                         *)
(* Generated handles (uuid4) of declarations and contracts are modelled by *)
(* fresh serial numbers (the position in the store).  Transaction ids and  *)
(* request payloads are opaque tokens the broker never reads; they are     *)
(* left out of the records.  Wall clock time (datetime.utcnow) is the      *)
(* integer `now`, counted in minutes.                                      *)
(***************************************************************************)
EXTENDS Integers, Sequences, FiniteSets, Bags, TLC

VARIABLES
    now,                    \* datetime.utcnow(), in minutes
    client_intents,         \* IntentBroker.client_intents: handle -> declaration
    server_capabilities,    \* IntentBroker.server_capabilities
    active_contracts,       \* IntentBroker.active_contracts: contract_id -> contract
    client_sessions,        \* IntentBroker.client_sessions: client_id -> contract_id
    contract_transactions,  \* IntentBroker.contract_transactions: contract_id -> ledger
    negotiation_stats,      \* IntentBroker.negotiation_stats
    inflight,               \* coroutines suspended at their Analyzer call
    ledger_history,         \* history variable: every record ever appended, per contract
    ret                     \* what the handler that ran last returned (or raised)

vars == <<now, client_intents, server_capabilities, active_contracts,
          client_sessions, contract_transactions, negotiation_stats,
          inflight, ledger_history, ret>>

----------------------------------------------------------------------------
(* Bounds of the model.  A specification explores the handlers within a    *)
(* record of limits L (see Limits below).                                  *)

MaxTime == 2            \* the clock stops advancing here
MaxIntents == 1         \* declare_client_intent calls
MaxCapabilities == 1    \* register_server_capability calls
MaxNegotiations == 1    \* negotiate_intent_contract calls, failed lookups included
MaxTx == 1              \* validations that reach the Analyzer, all contracts together
MaxInflight == 2        \* coroutines waiting for the Analyzer at once
TwoNegotiations == 2    \* MaxNegotiations of SpecTwo
DeepTime == 1           \* MaxTime of SpecDeep
DeepTx == 5             \* MaxTx of SpecDeep
LedgerInitial == 99     \* records in the ledger SpecLedger starts with
LedgerTx == 3           \* validations SpecLedger adds to them
StrikesInitial == 4     \* violations the contract of SpecStrikes starts with
StrikesTx == 3          \* validations SpecStrikes adds to them
DatetimeMax == 8        \* datetime.max, in minutes after the broker's start

(* Program constants *)

ViolationThreshold == 5
LedgerCap == 100
MinutesPerHour == 60

----------------------------------------------------------------------------
(* Values *)

None == <<>>            \* Optional[...]: None is <<>>, a value x is <<x>>
Some(x) == <<x>>

\* IntentValidationResult
VALID == "valid"
INVALID == "invalid"
SUSPICIOUS == "suspicious"
DRIFT_DETECTED == "drift_detected"

\* IntentCompatibilityStatus
COMPATIBLE == "compatible"
INCOMPATIBLE == "incompatible"
REQUIRES_NEGOTIATION == "requires_negotiation"
ANALYSIS_FAILED == "analysis_failed"

ClientIds == {"c1"}
Durations == {None, Some(0), Some(1)}

\* ClientIntentDeclaration (context and declared_at are never read by the broker)
ClientIntentDeclaration(duration, client_id) ==
    [purpose |-> "X",
     data_requirements |-> <<"weather">>,
     constraints |-> <<"read_only">>,
     duration |-> duration,
     client_id |-> client_id]

Intents == {ClientIntentDeclaration(d, c) : d \in Durations, c \in ClientIds}

\* ServerCapabilityDeclaration
ServerCapabilityDeclaration ==
    [provides |-> <<"weather">>,
     boundaries |-> <<"public_only">>,
     rate_limits |-> [rpm |-> 60],
     data_sensitivity |-> "public",
     supported_operations |-> <<"read">>,
     server_id |-> "s1"]

Capabilities == {ServerCapabilityDeclaration}

\* additional_constraints of negotiate_intent_contract; <<>> is None (or [])
AdditionalConstraints == {<<>>, <<"read_only">>}

\* response_data of validate_bidirectional_transaction: None or a non-empty dict
\* (an empty dict is falsy like None)
Responses == {"None", "data"}
Truthy(response_data) == response_data = "data"

\* time_window_hours of analyze_intent_drift
Windows == {0, 24}

Raise == [raise |-> "Exception"]

\* What the Analyzer's compatibility oracle can answer (or it raises)
IntentCompatibilityResult(status, suggested) ==
    [status |-> status,
     confidence_score |-> IF status = COMPATIBLE THEN 90 ELSE 0,
     suggested_constraints |-> suggested]

CompatibilityOutcomes ==
    {IntentCompatibilityResult(COMPATIBLE, <<"no_pii">>)}
    \cup {IntentCompatibilityResult(s, <<>>) :
            s \in {INCOMPATIBLE, REQUIRES_NEGOTIATION, ANALYSIS_FAILED}}
    \cup {Raise}

\* IntentTransactionValidation (confidence and alignment in percent)
IntentTransactionValidation(result, confidence, risk, action) ==
    [validation_result |-> result,
     confidence_score |-> confidence,
     risk_factors |-> risk,
     suggested_action |-> action,
     client_protection |-> None]

\* What the Analyzer's transaction oracle can answer (or it raises)
TransactionOutcomes ==
    {IntentTransactionValidation(VALID, 90, <<>>, "allow"),
     IntentTransactionValidation(SUSPICIOUS, 50, <<"anomaly">>, "flag"),
     Raise}

\* ServerResponseValidation
ServerResponseValidation(result, confidence, privacy, action) ==
    [validation_result |-> result,
     confidence_score |-> confidence,
     privacy_violations |-> privacy,
     suggested_action |-> action]

\* What the Analyzer's response oracle can answer (or it raises)
ResponseOutcomes ==
    {ServerResponseValidation(VALID, 90, <<>>, "allow"),
     ServerResponseValidation(SUSPICIOUS, 50, <<"tracking">>, "sanitize"),
     ServerResponseValidation(INVALID, 0, <<"analysis_error">>, "deny"),
     Raise}

\* What the Analyzer answers when its model cannot be reached or read: the
\* fallback of its own except branches, or an exception it lets through
FailedCompatibility == {IntentCompatibilityResult(ANALYSIS_FAILED, <<>>), Raise}

FailedTransactions ==
    {IntentTransactionValidation(INVALID, 0, <<"analysis_failure">>, "deny"), Raise}

FailedResponses ==
    {ServerResponseValidation(INVALID, 0, <<"analysis_error">>, "deny"), Raise}

\* What the Analyzer's drift oracle can answer (or it raises)
DriftResult(detected, severity, action) ==
    [drift_detected |-> detected,
     drift_severity |-> severity,
     recommended_action |-> action,
     confidence_score |-> 80]

DriftOutcomes ==
    {DriftResult(FALSE, "low", "continue"),
     DriftResult(TRUE, "medium", "review"),
     DriftResult(TRUE, "high", "terminate"),
     DriftResult(FALSE, "high", "continue"),
     Raise}

----------------------------------------------------------------------------
(* IntentContract *)

IsRaise(outcome) == "raise" \in DOMAIN outcome

\* IntentContract.__post_init__: the expiry is set when the duration is truthy
ExpiresAt(client_intent, created_at) ==
    IF client_intent.duration # None /\ client_intent.duration[1] # 0
    THEN Some(created_at + client_intent.duration[1])
    ELSE None

\* IntentContract.__post_init__ raises OverflowError: the expiry it computes
\* lies beyond datetime.max
Overflows(client_intent, created_at) ==
    /\ client_intent.duration # None
    /\ client_intent.duration[1] # 0
    /\ created_at + client_intent.duration[1] > DatetimeMax

\* IntentContract(client_intent=..., server_capability=..., ...) with the
\* dataclass defaults; created_at is utcnow() at construction
IntentContract(client_intent, server_capability, compatibility_result, is_active, agreed_purpose, created_at) ==
    [client_intent |-> client_intent,
     server_capability |-> server_capability,
     compatibility_result |-> compatibility_result,
     agreed_purpose |-> agreed_purpose,
     allowed_operations |-> <<>>,
     data_access_scope |-> <<>>,
     constraints |-> <<>>,
     rate_limits |-> <<>>,
     created_at |-> created_at,
     expires_at |-> ExpiresAt(client_intent, created_at),
     is_active |-> is_active,
     violation_count |-> 0,
     last_validated |-> None,
     transaction_count |-> 0,
     successful_transactions |-> 0,
     failed_transactions |-> 0]

\* a contract that never counts as expired
is_expired_never(contract, t) == FALSE

\* IntentContract.is_expired at time t
is_expired(contract, t) ==
    IF contract.expires_at = None
    THEN FALSE
    ELSE t > contract.expires_at[1]

\* a record_transaction that counts a failure in transaction_count only
record_transaction_uncounted(contract, success, t) ==
    [contract EXCEPT
        !.transaction_count = @ + 1,
        !.successful_transactions = IF success THEN @ + 1 ELSE @,
        !.last_validated = Some(t)]

\* IntentContract.record_transaction at time t
record_transaction(contract, success, t) ==
    [contract EXCEPT
        !.transaction_count = @ + 1,
        !.successful_transactions = IF success THEN @ + 1 ELSE @,
        !.failed_transactions = IF success THEN @ ELSE @ + 1,
        !.last_validated = Some(t)]

\* a record_violation that deactivates one violation later
record_violation_late(contract) ==
    [contract EXCEPT
        !.violation_count = @ + 1,
        !.is_active = IF contract.violation_count + 1 > ViolationThreshold
                      THEN FALSE ELSE @]

\* IntentContract.record_violation
record_violation(contract) ==
    [contract EXCEPT
        !.violation_count = @ + 1,
        !.is_active = IF contract.violation_count + 1 >= ViolationThreshold
                      THEN FALSE ELSE @]

----------------------------------------------------------------------------
(* IntentBroker: helpers *)

ContractIds == 1..Len(active_contracts)

\* a dict assignment d[k] = v
Put(d, k, v) == [x \in DOMAIN d \cup {k} |-> IF x = k THEN v ELSE d[x]]

\* a dict without the keys ks
Without(d, ks) == [x \in DOMAIN d \ ks |-> d[x]]

\* the coroutines of `inflight` running one of the handlers `ops`
Pending(ops) ==
    LET S == {f \in BagToSet(inflight) : f.op \in ops}
    IN  BagCardinality([f \in S |-> inflight[f]])

Suspend(f) == inflight (+) SetToBag({f})
Resume(f) == inflight (-) SetToBag({f})

RECURSIVE SumTransactions(_)
SumTransactions(contracts) ==
    IF contracts = <<>> THEN 0
    ELSE Head(contracts).transaction_count + SumTransactions(Tail(contracts))

Returned(op, contract_id, value) ==
    [op |-> op, contract_id |-> contract_id, value |-> value]

\* the handler `op` returns `value`; ret keeps the last return of an observed handler
Return(L, op, contract_id, value) ==
    ret' = IF op \in L.observe THEN Returned(op, contract_id, value) ELSE ret

\* the fixed verdict of validate_transaction's early exits and of its except branch
FixedInvalid(risk) == IntentTransactionValidation(INVALID, 0, <<risk>>, "deny")

\* the fixed verdict of validate_server_response's early exit and except branch
FixedInvalidResponse(privacy) == ServerResponseValidation(INVALID, 0, <<privacy>>, "deny")

\* constraints merged with the caller's first
NegotiatedConstraints_extra_first(client_intent, compatibility_result, additional_constraints) ==
    additional_constraints \o client_intent.constraints
        \o compatibility_result.suggested_constraints

\* contract.constraints of a compatible negotiation: copy, extend, extend
NegotiatedConstraints(client_intent, compatibility_result, additional_constraints) ==
    client_intent.constraints \o compatibility_result.suggested_constraints
        \o additional_constraints

\* a trim that keeps the oldest records
KeepFirst(transactions) ==
    IF Len(transactions) > LedgerCap
    THEN SubSeq(transactions, 1, LedgerCap)
    ELSE transactions

\* "Keep only last 100 transactions per contract"
KeepLast(transactions) ==
    IF Len(transactions) > LedgerCap
    THEN SubSeq(transactions, Len(transactions) - LedgerCap + 1, Len(transactions))
    ELSE transactions

\* the transaction_record stored for drift analysis
TransactionRecord(validation, response_data, t) ==
    [timestamp |-> t,
     validation_result |-> validation.validation_result]

\* a window that takes in the records stamped at the cutoff itself
RecentTransactions_closed(transactions, time_window_hours, t) ==
    SelectSeq(transactions,
              LAMBDA tx : tx.timestamp >= t - time_window_hours * MinutesPerHour)

\* recent_transactions of analyze_intent_drift
RecentTransactions(transactions, time_window_hours, t) ==
    SelectSeq(transactions,
              LAMBDA tx : tx.timestamp > t - time_window_hours * MinutesPerHour)

\* get_active_contracts (as contract ids)
get_active_contracts == {c \in ContractIds : active_contracts[c].is_active}

\* get_contract_by_client: the contract the session index holds for the client
get_contract_by_client(client_id) ==
    IF client_id \in DOMAIN client_sessions
    THEN Some(active_contracts[client_sessions[client_id]])
    ELSE None

\* statistics that report the stored active-contract counter
get_broker_stats_stored ==
    [total_negotiations |-> negotiation_stats.total_negotiations,
     successful_contracts |-> negotiation_stats.successful_contracts,
     failed_negotiations |-> negotiation_stats.failed_negotiations,
     active_contracts |-> negotiation_stats.active_contracts,
     total_contracts |-> Len(active_contracts),
     client_intents |-> Len(client_intents),
     server_capabilities |-> Len(server_capabilities),
     active_sessions |-> Cardinality(DOMAIN client_sessions)]

\* get_broker_stats: the counters, with the active count taken from the flags
get_broker_stats ==
    [total_negotiations |-> negotiation_stats.total_negotiations,
     successful_contracts |-> negotiation_stats.successful_contracts,
     failed_negotiations |-> negotiation_stats.failed_negotiations,
     active_contracts |-> Cardinality({c \in ContractIds : active_contracts[c].is_active}),
     total_contracts |-> Len(active_contracts),
     client_intents |-> Len(client_intents),
     server_capabilities |-> Len(server_capabilities),
     active_sessions |-> Cardinality(DOMAIN client_sessions)]

----------------------------------------------------------------------------
(* Initial state: IntentBroker.__init__ *)

NoReturn == Returned("none", 0, [none |-> TRUE])

Init ==
    /\ now = 0
    /\ client_intents = <<>>
    /\ server_capabilities = <<>>
    /\ active_contracts = <<>>
    /\ client_sessions = <<>>
    /\ contract_transactions = <<>>
    /\ negotiation_stats = [total_negotiations |-> 0,
                            successful_contracts |-> 0,
                            failed_negotiations |-> 0,
                            active_contracts |-> 0]
    /\ inflight = EmptyBag
    /\ ledger_history = <<>>
    /\ ret = NoReturn

----------------------------------------------------------------------------
(* Phase 1: declarations *)

\* declare_client_intent
DeclareClientIntent(L, intent) ==
    /\ Len(client_intents) < L.intents
    /\ client_intents' = Append(client_intents, intent)
    /\ Return(L, "declare_client_intent", 0, [intent_id |-> Len(client_intents) + 1])
    /\ UNCHANGED <<now, server_capabilities, active_contracts, client_sessions,
                   contract_transactions, negotiation_stats, inflight, ledger_history>>

\* register_server_capability
RegisterServerCapability(L, capability) ==
    /\ Len(server_capabilities) < L.capabilities
    /\ server_capabilities' = Append(server_capabilities, capability)
    /\ Return(L, "register_server_capability", 0,
                       [capability_id |-> Len(server_capabilities) + 1])
    /\ UNCHANGED <<now, client_intents, active_contracts, client_sessions,
                   contract_transactions, negotiation_stats, inflight, ledger_history>>

----------------------------------------------------------------------------
(* Phase 2: negotiate_intent_contract *)

\* a negotiation that looks the capability up first
NegotiateCall_capability_first(L, client_intent_id, server_capability_id, additional_constraints) ==
    /\ negotiation_stats.total_negotiations < L.negotiations
    /\ negotiation_stats' = [negotiation_stats EXCEPT !.total_negotiations = @ + 1]
    /\ IF server_capability_id \notin DOMAIN server_capabilities
       THEN /\ Return(L, "negotiate_intent_contract", 0,
                               [raise |-> "ValueError",
                                message |-> <<"Server capability not found: ",
                                              server_capability_id>>])
            /\ UNCHANGED inflight
       ELSE IF client_intent_id \notin DOMAIN client_intents
       THEN /\ Return(L, "negotiate_intent_contract", 0,
                               [raise |-> "ValueError",
                                message |-> <<"Client intent not found: ", client_intent_id>>])
            /\ UNCHANGED inflight
       ELSE /\ BagCardinality(inflight) < L.inflight
            /\ inflight' = Suspend([op |-> "negotiate_intent_contract",
                                    client_intent |-> client_intents[client_intent_id],
                                    server_capability |-> server_capabilities[server_capability_id],
                                    additional_constraints |-> additional_constraints])
            /\ UNCHANGED ret
    /\ UNCHANGED <<now, client_intents, server_capabilities, active_contracts,
                   client_sessions, contract_transactions, ledger_history>>

\* up to the Analyzer call: count the negotiation, resolve both handles
NegotiateCall(L, client_intent_id, server_capability_id, additional_constraints) ==
    /\ negotiation_stats.total_negotiations < L.negotiations
    /\ negotiation_stats' = [negotiation_stats EXCEPT !.total_negotiations = @ + 1]
    /\ IF client_intent_id \notin DOMAIN client_intents
       THEN /\ Return(L, "negotiate_intent_contract", 0,
                               [raise |-> "ValueError",
                                message |-> <<"Client intent not found: ", client_intent_id>>])
            /\ UNCHANGED inflight
       ELSE IF server_capability_id \notin DOMAIN server_capabilities
       THEN /\ Return(L, "negotiate_intent_contract", 0,
                               [raise |-> "ValueError",
                                message |-> <<"Server capability not found: ",
                                              server_capability_id>>])
            /\ UNCHANGED inflight
       ELSE /\ BagCardinality(inflight) < L.inflight
            /\ inflight' = Suspend([op |-> "negotiate_intent_contract",
                                    client_intent |-> client_intents[client_intent_id],
                                    server_capability |-> server_capabilities[server_capability_id],
                                    additional_constraints |-> additional_constraints])
            /\ UNCHANGED ret
    /\ UNCHANGED <<now, client_intents, server_capabilities, active_contracts,
                   client_sessions, contract_transactions, ledger_history>>

\* a negotiation that switches a contract on while it is still pending
NegotiatedContract_pending_active(f, compatibility_result, t) ==
    LET contract == IntentContract(f.client_intent, f.server_capability,
                                   Some(compatibility_result), TRUE, <<>>, t)
    IN  IF compatibility_result.status = COMPATIBLE
        THEN [contract EXCEPT
                !.is_active = TRUE,
                !.agreed_purpose = <<f.client_intent.purpose>>,
                !.allowed_operations = f.server_capability.supported_operations,
                !.data_access_scope = f.client_intent.data_requirements,
                !.constraints = f.client_intent.constraints
                                  \o compatibility_result.suggested_constraints
                                  \o f.additional_constraints,
                !.rate_limits = f.server_capability.rate_limits]
        ELSE IF compatibility_result.status = REQUIRES_NEGOTIATION
        THEN [contract EXCEPT
                !.is_active = TRUE,
                !.agreed_purpose = <<"PENDING: ", f.client_intent.purpose>>]
        ELSE [contract EXCEPT
                !.is_active = FALSE,
                !.agreed_purpose = <<"REJECTED: ", f.client_intent.purpose>>]

\* the contract built from the Analyzer's answer, by compatibility status
NegotiatedContract(f, compatibility_result, t) ==
    LET contract == IntentContract(f.client_intent, f.server_capability,
                                   Some(compatibility_result), TRUE, <<>>, t)
    IN  IF compatibility_result.status = COMPATIBLE
        THEN [contract EXCEPT
                !.is_active = TRUE,
                !.agreed_purpose = <<f.client_intent.purpose>>,
                !.allowed_operations = f.server_capability.supported_operations,
                !.data_access_scope = f.client_intent.data_requirements,
                !.constraints = NegotiatedConstraints(f.client_intent, compatibility_result,
                                                      f.additional_constraints),
                !.rate_limits = f.server_capability.rate_limits]
        ELSE IF compatibility_result.status = REQUIRES_NEGOTIATION
        THEN [contract EXCEPT
                !.is_active = FALSE,
                !.agreed_purpose = <<"PENDING: ", f.client_intent.purpose>>]
        ELSE [contract EXCEPT
                !.is_active = FALSE,
                !.agreed_purpose = <<"REJECTED: ", f.client_intent.purpose>>]

\* the failed contract of the except branch
FailedContract(f, t) ==
    IntentContract(f.client_intent, f.server_capability, None,
                   FALSE, <<"FAILED: ", "Exception">>, t)

\* declarations whose constraint list the contract extends in place
IntentsAfterNegotiation_shared(f, outcome) ==
    IF IsRaise(outcome) \/ Overflows(f.client_intent, now)
    THEN client_intents
    ELSE IF outcome.status # COMPATIBLE
    THEN client_intents
    ELSE [i \in DOMAIN client_intents |->
             IF client_intents[i] = f.client_intent
             THEN [client_intents[i] EXCEPT
                     !.constraints = @ \o outcome.suggested_constraints
                                       \o f.additional_constraints]
             ELSE client_intents[i]]

\* The registered intents after a negotiation: the contract extends its own
\* copies of the declaration's lists, the declarations stay as they are.
IntentsAfterNegotiation(f, outcome) == client_intents

\* a negotiation that counts a pending contract as a failed negotiation
NegotiateReturn_pending_failed(L, f, outcome) ==
    /\ f \in BagToSet(inflight)
    /\ f.op = "negotiate_intent_contract"
    /\ inflight' = Resume(f)
    /\ LET contract_id == Len(active_contracts) + 1
       IN  IF Overflows(f.client_intent, now)
           THEN \* the constructor raises in the try block and again in the except branch
                /\ negotiation_stats' =
                       [negotiation_stats EXCEPT !.failed_negotiations = @ + 1]
                /\ UNCHANGED <<active_contracts, client_sessions, contract_transactions,
                               ledger_history>>
                /\ Return(L, "negotiate_intent_contract", 0,
                          [raise |-> "OverflowError", message |-> <<"date value out of range">>])
           ELSE IF IsRaise(outcome)
           THEN /\ negotiation_stats' =
                       [negotiation_stats EXCEPT !.failed_negotiations = @ + 1]
                /\ active_contracts' = Append(active_contracts, FailedContract(f, now))
                /\ UNCHANGED <<client_sessions, contract_transactions, ledger_history>>
                /\ Return(L, "negotiate_intent_contract", contract_id,
                                   [contract_id |-> contract_id])
           ELSE LET contract == NegotiatedContract(f, outcome, now)
                IN  /\ active_contracts' = Append(active_contracts, contract)
                    /\ contract_transactions' = Put(contract_transactions, contract_id, <<>>)
                    /\ ledger_history' = Put(ledger_history, contract_id, <<>>)
                    /\ client_sessions' =
                           IF contract.is_active
                           THEN Put(client_sessions, f.client_intent.client_id, contract_id)
                           ELSE client_sessions
                    /\ negotiation_stats' =
                           [negotiation_stats EXCEPT
                              !.successful_contracts =
                                  IF outcome.status = COMPATIBLE THEN @ + 1 ELSE @,
                              !.failed_negotiations =
                                  IF outcome.status = COMPATIBLE THEN @ ELSE @ + 1,
                              !.active_contracts =
                                  IF contract.is_active THEN @ + 1 ELSE @]
                    /\ Return(L, "negotiate_intent_contract", contract_id,
                                       [contract_id |-> contract_id])
    /\ client_intents' = IntentsAfterNegotiation(f, outcome)
    /\ UNCHANGED <<now, server_capabilities>>

\* after the Analyzer call: build, store and index the contract
NegotiateReturn(L, f, outcome) ==
    /\ f \in BagToSet(inflight)
    /\ f.op = "negotiate_intent_contract"
    /\ inflight' = Resume(f)
    /\ LET contract_id == Len(active_contracts) + 1
       IN  IF Overflows(f.client_intent, now)
           THEN \* the constructor raises in the try block and again in the except branch
                /\ negotiation_stats' =
                       [negotiation_stats EXCEPT !.failed_negotiations = @ + 1]
                /\ UNCHANGED <<active_contracts, client_sessions, contract_transactions,
                               ledger_history>>
                /\ Return(L, "negotiate_intent_contract", 0,
                          [raise |-> "OverflowError", message |-> <<"date value out of range">>])
           ELSE IF IsRaise(outcome)
           THEN /\ negotiation_stats' =
                       [negotiation_stats EXCEPT !.failed_negotiations = @ + 1]
                /\ active_contracts' = Append(active_contracts, FailedContract(f, now))
                /\ UNCHANGED <<client_sessions, contract_transactions, ledger_history>>
                /\ Return(L, "negotiate_intent_contract", contract_id,
                                   [contract_id |-> contract_id])
           ELSE LET contract == NegotiatedContract(f, outcome, now)
                IN  /\ active_contracts' = Append(active_contracts, contract)
                    /\ contract_transactions' = Put(contract_transactions, contract_id, <<>>)
                    /\ ledger_history' = Put(ledger_history, contract_id, <<>>)
                    /\ client_sessions' =
                           IF contract.is_active
                           THEN Put(client_sessions, f.client_intent.client_id, contract_id)
                           ELSE client_sessions
                    /\ negotiation_stats' =
                           [negotiation_stats EXCEPT
                              !.successful_contracts =
                                  IF outcome.status = COMPATIBLE THEN @ + 1 ELSE @,
                              !.failed_negotiations =
                                  IF outcome.status \in {COMPATIBLE, REQUIRES_NEGOTIATION}
                                  THEN @ ELSE @ + 1,
                              !.active_contracts =
                                  IF contract.is_active THEN @ + 1 ELSE @]
                    /\ Return(L, "negotiate_intent_contract", contract_id,
                                       [contract_id |-> contract_id])
    /\ client_intents' = IntentsAfterNegotiation(f, outcome)
    /\ UNCHANGED <<now, server_capabilities>>

----------------------------------------------------------------------------
(* Phase 3: validate_transaction *)

\* early exits without the expiry test
EarlyExit_unexpiring(contract_id, t) ==
    IF contract_id \notin ContractIds THEN "unknown_contract"
    ELSE IF ~active_contracts[contract_id].is_active THEN "inactive_contract"
    ELSE "none"

\* the early exit validate_transaction takes at time t, or "none"
EarlyExit(contract_id, t) ==
    IF contract_id \notin ContractIds THEN "unknown_contract"
    ELSE IF ~active_contracts[contract_id].is_active THEN "inactive_contract"
    ELSE IF is_expired(active_contracts[contract_id], t) THEN "expired_contract"
    ELSE "none"

\* a validation that reports the expiry and leaves the deactivation to the sweep
ValidateTransactionBegin_deferring(L, op, contract_id, response_data) ==
    LET exit == EarlyExit(contract_id, now)
    IN  /\ IF exit # "none"
           THEN /\ Return(L, op, contract_id, FixedInvalid(exit))
                /\ UNCHANGED <<active_contracts, inflight>>
           ELSE /\ SumTransactions(active_contracts)
                     + Pending({"validate_transaction",
                                "validate_bidirectional_transaction"}) < L.transactions
                /\ BagCardinality(inflight) < L.inflight
                /\ inflight' = Suspend([op |-> op,
                                        contract_id |-> contract_id,
                                        response_data |-> response_data])
                /\ UNCHANGED <<active_contracts, ret>>
        /\ UNCHANGED <<now, client_intents, server_capabilities, client_sessions,
                       contract_transactions, negotiation_stats, ledger_history>>

\* validate_transaction up to the Analyzer call, run for the handler `op`
ValidateTransactionBegin(L, op, contract_id, response_data) ==
    LET exit == EarlyExit(contract_id, now)
    IN  /\ IF exit # "none"
           THEN /\ active_contracts' =
                       IF exit = "expired_contract"
                       THEN [active_contracts EXCEPT ![contract_id].is_active = FALSE]
                       ELSE active_contracts
                /\ Return(L, op, contract_id, FixedInvalid(exit))
                /\ UNCHANGED inflight
           ELSE /\ SumTransactions(active_contracts)
                     + Pending({"validate_transaction",
                                "validate_bidirectional_transaction"}) < L.transactions
                /\ BagCardinality(inflight) < L.inflight
                /\ inflight' = Suspend([op |-> op,
                                        contract_id |-> contract_id,
                                        response_data |-> response_data])
                /\ UNCHANGED <<active_contracts, ret>>
        /\ UNCHANGED <<now, client_intents, server_capabilities, client_sessions,
                       contract_transactions, negotiation_stats, ledger_history>>

\* a verdict that fails open when the Analyzer raises
RequestValidation_open(outcome) ==
    IF IsRaise(outcome)
    THEN IntentTransactionValidation(VALID, 0, <<"validation_error">>, "allow")
    ELSE outcome

\* the verdict validate_transaction returns for an Analyzer outcome
RequestValidation(outcome) ==
    IF IsRaise(outcome) THEN FixedInvalid("validation_error") ELSE outcome

\* a recording in which a valid transaction switches the contract on again
Recorded_reviving(contract, outcome, t) ==
    LET success == ~IsRaise(outcome) /\ outcome.validation_result = VALID
    IN  IF success
        THEN [record_transaction(contract, TRUE, t) EXCEPT !.is_active = TRUE]
        ELSE record_violation(record_transaction(contract, FALSE, t))

\* a recording in which a raising Analyzer costs no violation
Recorded_lenient(contract, outcome, t) ==
    LET success == ~IsRaise(outcome) /\ outcome.validation_result = VALID
    IN  IF success
        THEN record_transaction(contract, TRUE, t)
        ELSE IF IsRaise(outcome)
        THEN record_transaction(contract, FALSE, t)
        ELSE record_violation(record_transaction(contract, FALSE, t))

\* the contract after the outcome is recorded on it
Recorded(contract, outcome, t) ==
    LET success == ~IsRaise(outcome) /\ outcome.validation_result = VALID
    IN  IF success
        THEN record_transaction(contract, TRUE, t)
        ELSE record_violation(record_transaction(contract, FALSE, t))

\* the ledger after the outcome: the except branch stores no record
Stored(transactions, outcome, response_data, t) ==
    IF IsRaise(outcome)
    THEN transactions
    ELSE KeepLast(Append(transactions, TransactionRecord(outcome, response_data, t)))

\* a commit booked on the contract the client's session points to
ValidateTransactionCommit_by_session(f, outcome) ==
    LET client_id == active_contracts[f.contract_id].client_intent.client_id
        target == IF client_id \in DOMAIN client_sessions
                  THEN client_sessions[client_id]
                  ELSE f.contract_id
    IN  /\ active_contracts' =
               [active_contracts EXCEPT ![target] = Recorded(@, outcome, now)]
        /\ contract_transactions' =
               [contract_transactions EXCEPT
                  ![target] = Stored(@, outcome, f.response_data, now)]
        /\ ledger_history' =
               [ledger_history EXCEPT
                  ![target] =
                      IF IsRaise(outcome) THEN @
                      ELSE Append(@, TransactionRecord(outcome, f.response_data, now))]
        /\ UNCHANGED <<now, client_intents, server_capabilities, client_sessions,
                       negotiation_stats>>

\* a commit that is lost when another validation of the contract is still waiting
ValidateTransactionCommit_lossy(f, outcome) ==
    LET others == {g \in BagToSet(inflight) :
                      /\ g.op \in {"validate_transaction", "validate_bidirectional_transaction"}
                      /\ g.contract_id = f.contract_id
                      /\ (g # f \/ inflight[f] > 1)}
    IN  /\ active_contracts' =
               IF others # {} THEN active_contracts
               ELSE [active_contracts EXCEPT ![f.contract_id] = Recorded(@, outcome, now)]
        /\ contract_transactions' =
               [contract_transactions EXCEPT
                  ![f.contract_id] = Stored(@, outcome, f.response_data, now)]
        /\ ledger_history' =
               [ledger_history EXCEPT
                  ![f.contract_id] =
                      IF IsRaise(outcome) THEN @
                      ELSE Append(@, TransactionRecord(outcome, f.response_data, now))]
        /\ UNCHANGED <<now, client_intents, server_capabilities, client_sessions,
                       negotiation_stats>>

\* validate_transaction after the Analyzer call: record, store, trim
ValidateTransactionCommit(f, outcome) ==
    /\ active_contracts' =
           [active_contracts EXCEPT
              ![f.contract_id] = Recorded(@, outcome, now)]
    /\ contract_transactions' =
           [contract_transactions EXCEPT
              ![f.contract_id] = Stored(@, outcome, f.response_data, now)]
    /\ ledger_history' =
           [ledger_history EXCEPT
              ![f.contract_id] =
                  IF IsRaise(outcome) THEN @
                  ELSE Append(@, TransactionRecord(outcome, f.response_data, now))]
    /\ UNCHANGED <<now, client_intents, server_capabilities, client_sessions,
                   negotiation_stats>>

\* the payloads of a plain validate_transaction call are not read after the await
ValidateTransactionCall(L, contract_id) ==
    ValidateTransactionBegin(L, "validate_transaction", contract_id, "None")

ValidateTransactionReturn(L, f, outcome) ==
    /\ f \in BagToSet(inflight)
    /\ f.op = "validate_transaction"
    /\ ValidateTransactionCommit(f, outcome)
    /\ inflight' = Resume(f)
    /\ Return(L, "validate_transaction", f.contract_id, RequestValidation(outcome))

----------------------------------------------------------------------------
(* validate_server_response *)

ValidateServerResponseCall(L, contract_id) ==
    /\ IF contract_id \notin ContractIds
       THEN /\ Return(L, "validate_server_response", contract_id,
                               FixedInvalidResponse("unknown_contract"))
            /\ UNCHANGED inflight
       ELSE /\ BagCardinality(inflight) < L.inflight
            /\ inflight' = Suspend([op |-> "validate_server_response",
                                    contract_id |-> contract_id,
                                    caller |-> "direct",
                                    request_validation |-> None])
            /\ UNCHANGED ret
    /\ UNCHANGED <<now, client_intents, server_capabilities, active_contracts,
                   client_sessions, contract_transactions, negotiation_stats,
                   ledger_history>>

\* the verdict validate_server_response returns for an Analyzer outcome
ResponseValidation(outcome) ==
    IF IsRaise(outcome) THEN FixedInvalidResponse("validation_error") ELSE outcome

\* a combination that attaches the response verdict and escalates nothing
Combined_attached(request_validation, response_validation) ==
    [request_validation EXCEPT !.client_protection = Some(response_validation)]

\* validate_bidirectional_transaction: attach the response verdict and escalate
Combined(request_validation, response_validation) ==
    IF response_validation.validation_result # VALID
    THEN [request_validation EXCEPT
            !.client_protection = Some(response_validation),
            !.validation_result = SUSPICIOUS,
            !.risk_factors = @ \o <<"server_response_violation",
                                    "client_protection_triggered">>,
            !.suggested_action = response_validation.suggested_action]
    ELSE [request_validation EXCEPT
            !.client_protection = Some(response_validation)]

\* a response check that tallies its verdict as a transaction of its own
ValidateServerResponseReturn_tallying(L, f, outcome) ==
    /\ f \in BagToSet(inflight)
    /\ f.op = "validate_server_response"
    /\ inflight' = Resume(f)
    /\ active_contracts' =
           [active_contracts EXCEPT
              ![f.contract_id] =
                  record_transaction(@, ResponseValidation(outcome).validation_result = VALID,
                                     now)]
    /\ IF f.caller = "direct"
       THEN Return(L, "validate_server_response", f.contract_id,
                   ResponseValidation(outcome))
       ELSE Return(L, "validate_bidirectional_transaction", f.contract_id,
                   Combined(f.request_validation[1], ResponseValidation(outcome)))
    /\ UNCHANGED <<now, client_intents, server_capabilities,
                   client_sessions, contract_transactions, negotiation_stats,
                   ledger_history>>

\* a response check that books a verdict that is not valid as a violation
ValidateServerResponseReturn_booking(L, f, outcome) ==
    /\ f \in BagToSet(inflight)
    /\ f.op = "validate_server_response"
    /\ inflight' = Resume(f)
    /\ active_contracts' =
           IF ResponseValidation(outcome).validation_result # VALID
           THEN [active_contracts EXCEPT ![f.contract_id] = record_violation(@)]
           ELSE active_contracts
    /\ IF f.caller = "direct"
       THEN Return(L, "validate_server_response", f.contract_id,
                   ResponseValidation(outcome))
       ELSE Return(L, "validate_bidirectional_transaction", f.contract_id,
                   Combined(f.request_validation[1], ResponseValidation(outcome)))
    /\ UNCHANGED <<now, client_intents, server_capabilities,
                   client_sessions, contract_transactions, negotiation_stats,
                   ledger_history>>

ValidateServerResponseReturn(L, f, outcome) ==
    /\ f \in BagToSet(inflight)
    /\ f.op = "validate_server_response"
    /\ inflight' = Resume(f)
    /\ IF f.caller = "direct"
       THEN Return(L, "validate_server_response", f.contract_id,
                   ResponseValidation(outcome))
       ELSE Return(L, "validate_bidirectional_transaction", f.contract_id,
                   Combined(f.request_validation[1], ResponseValidation(outcome)))
    /\ UNCHANGED <<now, client_intents, server_capabilities, active_contracts,
                   client_sessions, contract_transactions, negotiation_stats,
                   ledger_history>>

----------------------------------------------------------------------------
(* validate_bidirectional_transaction *)

BidirectionalCall(L, contract_id, response_data) ==
    ValidateTransactionBegin(L, "validate_bidirectional_transaction",
                             contract_id, response_data)

\* a response check that runs whatever the request verdict is
ChecksResponse_always(request_validation, response_data) ==
    Truthy(response_data)

\* whether the response check runs after the request verdict
ChecksResponse(request_validation, response_data) ==
    request_validation.validation_result = VALID /\ Truthy(response_data)

\* the request check returns: fail fast, or go on to the response check
BidirectionalRequestReturn(L, f, outcome) ==
    /\ f \in BagToSet(inflight)
    /\ f.op = "validate_bidirectional_transaction"
    /\ ValidateTransactionCommit(f, outcome)
    /\ LET request_validation == RequestValidation(outcome)
       IN  IF ChecksResponse(request_validation, f.response_data)
           THEN /\ inflight' = Resume(f) (+)
                       SetToBag({[op |-> "validate_server_response",
                                  contract_id |-> f.contract_id,
                                  caller |-> "bidirectional",
                                  request_validation |-> Some(request_validation)]})
                /\ UNCHANGED ret
           ELSE /\ inflight' = Resume(f)
                /\ Return(L, "validate_bidirectional_transaction",
                                   f.contract_id, request_validation)

----------------------------------------------------------------------------
(* analyze_intent_drift *)

Ledger(contract_id) ==
    IF contract_id \in DOMAIN contract_transactions
    THEN contract_transactions[contract_id]
    ELSE <<>>

NoRecentTransactions ==
    [drift_detected |-> FALSE,
     drift_severity |-> "none",
     recommended_action |-> "continue",
     confidence_score |-> 100]

DriftFallback ==
    [drift_detected |-> FALSE,
     drift_severity |-> "unknown",
     recommended_action |-> "review",
     confidence_score |-> 0,
     error |-> "Exception"]

AnalyzeIntentDriftCall(L, contract_id, time_window_hours) ==
    /\ IF contract_id \notin ContractIds
       THEN /\ Return(L, "analyze_intent_drift", contract_id,
                               [error |-> "Contract not found"])
            /\ UNCHANGED inflight
       ELSE IF RecentTransactions(Ledger(contract_id), time_window_hours, now) = <<>>
       THEN /\ Return(L, "analyze_intent_drift", contract_id, NoRecentTransactions)
            /\ UNCHANGED inflight
       ELSE /\ BagCardinality(inflight) < L.inflight
            /\ inflight' = Suspend([op |-> "analyze_intent_drift",
                                    contract_id |-> contract_id])
            /\ UNCHANGED ret
    /\ UNCHANGED <<now, client_intents, server_capabilities, active_contracts,
                   client_sessions, contract_transactions, negotiation_stats,
                   ledger_history>>

\* whether the drift result deactivates the contract
HighDrift(drift_analysis) ==
    drift_analysis.drift_detected /\ drift_analysis.drift_severity = "high"

\* a drift analysis that deactivates the contract when the Analyzer fails
AnalyzeIntentDriftReturn_closing(L, f, outcome) ==
    /\ f \in BagToSet(inflight)
    /\ f.op = "analyze_intent_drift"
    /\ inflight' = Resume(f)
    /\ IF IsRaise(outcome)
       THEN /\ Return(L, "analyze_intent_drift", f.contract_id, DriftFallback)
            /\ active_contracts' =
                   [active_contracts EXCEPT ![f.contract_id].is_active = FALSE]
       ELSE /\ active_contracts' =
                   IF HighDrift(outcome)
                   THEN [active_contracts EXCEPT ![f.contract_id].is_active = FALSE]
                   ELSE active_contracts
            /\ Return(L, "analyze_intent_drift", f.contract_id, outcome)
    /\ UNCHANGED <<now, client_intents, server_capabilities, client_sessions,
                   contract_transactions, negotiation_stats, ledger_history>>

AnalyzeIntentDriftReturn(L, f, outcome) ==
    /\ f \in BagToSet(inflight)
    /\ f.op = "analyze_intent_drift"
    /\ inflight' = Resume(f)
    /\ IF IsRaise(outcome)
       THEN /\ Return(L, "analyze_intent_drift", f.contract_id, DriftFallback)
            /\ UNCHANGED active_contracts
       ELSE /\ active_contracts' =
                   IF HighDrift(outcome)
                   THEN [active_contracts EXCEPT ![f.contract_id].is_active = FALSE]
                   ELSE active_contracts
            /\ Return(L, "analyze_intent_drift", f.contract_id, outcome)
    /\ UNCHANGED <<now, client_intents, server_capabilities, client_sessions,
                   contract_transactions, negotiation_stats, ledger_history>>

----------------------------------------------------------------------------
(* cleanup_expired_contracts: no await inside, one atomic pass *)

\* a sweep that walks the Session Index instead of the stored contracts
ExpiredContracts_indexed(t) ==
    {c \in ContractIds :
        /\ is_expired(active_contracts[c], t)
        /\ active_contracts[c].is_active
        /\ \E client_id \in DOMAIN client_sessions : client_sessions[client_id] = c}

\* a sweep that takes every expired contract, deactivated before or not
ExpiredContracts_all(t) ==
    {c \in ContractIds : is_expired(active_contracts[c], t)}

\* the contracts the sweep deactivates at time t
ExpiredContracts(t) ==
    {c \in ContractIds :
        is_expired(active_contracts[c], t) /\ active_contracts[c].is_active}

\* a sweep that takes what it swept off the counter instead of recounting
CleanupExpiredContracts_incremental(L) ==
    LET expired_contracts == ExpiredContracts(now)
    IN  /\ active_contracts' =
               [c \in ContractIds |->
                   IF c \in expired_contracts
                   THEN [active_contracts[c] EXCEPT !.is_active = FALSE]
                   ELSE active_contracts[c]]
        /\ client_sessions' =
               Without(client_sessions,
                       {client_id \in DOMAIN client_sessions :
                           client_sessions[client_id] \in expired_contracts})
        /\ negotiation_stats' =
               [negotiation_stats EXCEPT
                  !.active_contracts = @ - Cardinality(expired_contracts)]
        /\ Return(L, "cleanup_expired_contracts", 0,
                           [count |-> Cardinality(expired_contracts)])
        /\ UNCHANGED <<now, client_intents, server_capabilities, contract_transactions,
                       inflight, ledger_history>>

CleanupExpiredContracts(L) ==
    LET expired_contracts == ExpiredContracts(now)
        expired_sessions == {client_id \in DOMAIN client_sessions :
                                client_sessions[client_id] \in expired_contracts}
        swept == [c \in ContractIds |->
                    IF c \in expired_contracts
                    THEN [active_contracts[c] EXCEPT !.is_active = FALSE]
                    ELSE active_contracts[c]]
    IN  /\ active_contracts' = swept
        /\ client_sessions' = Without(client_sessions, expired_sessions)
        /\ negotiation_stats' =
               [negotiation_stats EXCEPT
                  !.active_contracts = Cardinality({c \in ContractIds : swept[c].is_active})]
        /\ Return(L, "cleanup_expired_contracts", 0,
                           [count |-> Cardinality(expired_contracts)])
        /\ UNCHANGED <<now, client_intents, server_capabilities, contract_transactions,
                       inflight, ledger_history>>

----------------------------------------------------------------------------
(* The clock *)

Tick(L) ==
    /\ now < L.time
    /\ now' = now + 1
    /\ UNCHANGED <<client_intents, server_capabilities, active_contracts,
                   client_sessions, contract_transactions, negotiation_stats,
                   inflight, ledger_history, ret>>

----------------------------------------------------------------------------

\* the bounds and the observed handlers of a specification
Limits(time, negotiations, transactions, observe) ==
    [time |-> time,
     intents |-> MaxIntents,
     capabilities |-> MaxCapabilities,
     negotiations |-> negotiations,
     transactions |-> transactions,
     inflight |-> MaxInflight,
     observe |-> observe]

Handlers ==
    {"declare_client_intent", "register_server_capability", "negotiate_intent_contract",
     "validate_transaction", "validate_server_response",
     "validate_bidirectional_transaction", "analyze_intent_drift",
     "cleanup_expired_contracts"}

\* negotiate_intent_contract alone
Negotiate(L) ==
    \/ \E i \in 1..(Len(client_intents) + 1), s \in 1..(Len(server_capabilities) + 1),
          a \in AdditionalConstraints : NegotiateCall(L, i, s, a)
    \/ \E f \in BagToSet(inflight), o \in CompatibilityOutcomes : NegotiateReturn(L, f, o)

\* the handlers that set contracts up
Setup(L) ==
    \/ \E intent \in Intents : DeclareClientIntent(L, intent)
    \/ \E capability \in Capabilities : RegisterServerCapability(L, capability)
    \/ Negotiate(L)

\* validate_transaction alone
Validate(L) ==
    \/ \E c \in 1..(Len(active_contracts) + 1) : ValidateTransactionCall(L, c)
    \/ \E f \in BagToSet(inflight), o \in TransactionOutcomes :
          ValidateTransactionReturn(L, f, o)

\* the handlers that work on the contracts there are, and the clock
Serve(L) ==
    \/ Validate(L)
    \/ \E c \in 1..(Len(active_contracts) + 1), r \in Responses : BidirectionalCall(L, c, r)
    \/ \E f \in BagToSet(inflight), o \in TransactionOutcomes :
          BidirectionalRequestReturn(L, f, o)
    \/ \E c \in 1..(Len(active_contracts) + 1) : ValidateServerResponseCall(L, c)
    \/ \E f \in BagToSet(inflight), o \in ResponseOutcomes :
          ValidateServerResponseReturn(L, f, o)
    \/ \E c \in 1..(Len(active_contracts) + 1), w \in Windows :
          AnalyzeIntentDriftCall(L, c, w)
    \/ \E f \in BagToSet(inflight), o \in DriftOutcomes : AnalyzeIntentDriftReturn(L, f, o)
    \/ CleanupExpiredContracts(L)
    \/ Tick(L)

Next(L) == Setup(L) \/ Serve(L)

\* one contract, every return observed, short histories
SpecLimits == Limits(MaxTime, MaxNegotiations, MaxTx, Handlers)

Spec == Init /\ [][Next(SpecLimits)]_vars

\* two negotiations, returns not observed
SpecTwo == Init /\ [][Next(Limits(MaxTime, TwoNegotiations, MaxTx, {}))]_vars

\* one contract followed past the violation threshold, returns not observed
SpecDeep == Init /\ [][Next(Limits(DeepTime, MaxNegotiations, DeepTx, {}))]_vars

\* One handler at a time: every call returns before the next one is made.  The
\* broker serves validate_transaction only.
SpecSequential ==
    Init /\ [][LET L == [Limits(MaxTime, MaxNegotiations, DeepTx, {}) EXCEPT !.inflight = 1]
               IN  Setup(L) \/ Validate(L) \/ Tick(L)]_vars

\* The sweeper next to validate_transaction: two negotiations, the returns of
\* both observed.
SweepLimits ==
    Limits(MaxTime, TwoNegotiations, MaxTx,
           {"validate_transaction", "cleanup_expired_contracts"})

SpecSweep ==
    Init /\ [][\/ Setup(SweepLimits)
               \/ Validate(SweepLimits)
               \/ CleanupExpiredContracts(SweepLimits)
               \/ Tick(SweepLimits)]_vars

\* SpecSweep with a sweeper that keeps running: periodic_cleanup loops for as
\* long as the gateway is up, so a sweep that would change something is
\* not postponed for ever.
SpecSweepFair ==
    /\ Init
    /\ [][\/ Setup(SweepLimits)
          \/ Validate(SweepLimits)
          \/ CleanupExpiredContracts(SweepLimits)
          \/ Tick(SweepLimits)]_vars
    /\ WF_vars(CleanupExpiredContracts(SweepLimits))

\* A broker whose one contract has validated LedgerInitial transactions at time 0,
\* the oldest one suspicious and the others valid.
LongLedger ==
    [i \in 1..LedgerInitial |->
        [timestamp |-> 0,
         validation_result |-> IF i = 1 THEN SUSPICIOUS ELSE VALID]]

InitLedger ==
    LET intent == ClientIntentDeclaration(None, "c1")
        f == [client_intent |-> intent,
              server_capability |-> ServerCapabilityDeclaration,
              additional_constraints |-> <<>>]
        fresh == NegotiatedContract(f, IntentCompatibilityResult(COMPATIBLE, <<"no_pii">>), 0)
    IN  /\ now = 0
        /\ client_intents = <<intent>>
        /\ server_capabilities = <<ServerCapabilityDeclaration>>
        /\ active_contracts =
               <<[fresh EXCEPT !.transaction_count = LedgerInitial,
                               !.successful_transactions = LedgerInitial - 1,
                               !.failed_transactions = 1,
                               !.violation_count = 1,
                               !.last_validated = Some(0)]>>
        /\ client_sessions = Put(<<>>, "c1", 1)
        /\ contract_transactions = <<LongLedger>>
        /\ negotiation_stats = [total_negotiations |-> 1,
                                successful_contracts |-> 1,
                                failed_negotiations |-> 0,
                                active_contracts |-> 1]
        /\ inflight = EmptyBag
        /\ ledger_history = <<LongLedger>>
        /\ ret = NoReturn

\* The ledger pushed over its cap.  InitLedger has used up MaxIntents,
\* MaxCapabilities and MaxNegotiations, so of Next only Serve is enabled.
SpecLedger ==
    InitLedger /\ [][Serve(Limits(DeepTime, MaxNegotiations, LedgerInitial + LedgerTx, {}))]_vars

\* A broker whose one contract has had StrikesInitial transactions judged
\* suspicious at time 0: one violation short of the threshold, still active.
StruckLedger ==
    [i \in 1..StrikesInitial |-> [timestamp |-> 0, validation_result |-> SUSPICIOUS]]

InitStrikes ==
    LET intent == ClientIntentDeclaration(None, "c1")
        f == [client_intent |-> intent,
              server_capability |-> ServerCapabilityDeclaration,
              additional_constraints |-> <<>>]
        fresh == NegotiatedContract(f, IntentCompatibilityResult(COMPATIBLE, <<"no_pii">>), 0)
    IN  /\ now = 0
        /\ client_intents = <<intent>>
        /\ server_capabilities = <<ServerCapabilityDeclaration>>
        /\ active_contracts =
               <<[fresh EXCEPT !.transaction_count = StrikesInitial,
                               !.failed_transactions = StrikesInitial,
                               !.violation_count = StrikesInitial,
                               !.last_validated = Some(0)]>>
        /\ client_sessions = Put(<<>>, "c1", 1)
        /\ contract_transactions = <<StruckLedger>>
        /\ negotiation_stats = [total_negotiations |-> 1,
                                successful_contracts |-> 1,
                                failed_negotiations |-> 0,
                                active_contracts |-> 1]
        /\ inflight = EmptyBag
        /\ ledger_history = <<StruckLedger>>
        /\ ret = NoReturn

\* The contract taken to the violation threshold by validations that may
\* overlap.  InitStrikes has used up MaxIntents, MaxCapabilities and
\* MaxNegotiations, so of Next only Serve is enabled.
SpecStrikes ==
    InitStrikes /\ [][Serve(Limits(DeepTime, MaxNegotiations, StrikesInitial + StrikesTx, {}))]_vars

\* A broker holding one active contract, negotiated at time 0 while the
\* Analyzer still answered.
InitOutage ==
    \E duration \in Durations :
        LET intent == ClientIntentDeclaration(duration, "c1")
            f == [client_intent |-> intent,
                  server_capability |-> ServerCapabilityDeclaration,
                  additional_constraints |-> <<>>]
        IN  /\ now = 0
            /\ client_intents = <<intent>>
            /\ server_capabilities = <<ServerCapabilityDeclaration>>
            /\ active_contracts =
                   <<NegotiatedContract(f, IntentCompatibilityResult(COMPATIBLE, <<"no_pii">>), 0)>>
            /\ client_sessions = Put(<<>>, "c1", 1)
            /\ contract_transactions = <<(<<>>)>>
            /\ negotiation_stats = [total_negotiations |-> 1,
                                    successful_contracts |-> 1,
                                    failed_negotiations |-> 0,
                                    active_contracts |-> 1]
            /\ inflight = EmptyBag
            /\ ledger_history = <<(<<>>)>>
            /\ ret = NoReturn

\* the negotiating and validating handlers with an Analyzer that fails every call
Outage(L) ==
    \/ \E i \in 1..(Len(client_intents) + 1), s \in 1..(Len(server_capabilities) + 1),
          a \in AdditionalConstraints : NegotiateCall(L, i, s, a)
    \/ \E f \in BagToSet(inflight), o \in FailedCompatibility : NegotiateReturn(L, f, o)
    \/ \E c \in 1..(Len(active_contracts) + 1) : ValidateTransactionCall(L, c)
    \/ \E f \in BagToSet(inflight), o \in FailedTransactions :
          ValidateTransactionReturn(L, f, o)
    \/ \E c \in 1..(Len(active_contracts) + 1), r \in Responses : BidirectionalCall(L, c, r)
    \/ \E f \in BagToSet(inflight), o \in FailedTransactions :
          BidirectionalRequestReturn(L, f, o)
    \/ \E c \in 1..(Len(active_contracts) + 1) : ValidateServerResponseCall(L, c)
    \/ \E f \in BagToSet(inflight), o \in FailedResponses :
          ValidateServerResponseReturn(L, f, o)
    \/ Tick(L)

\* The Analyzer is down for good; every return is observed.
SpecOutage ==
    InitOutage /\ [][Outage(Limits(MaxTime, TwoNegotiations, MaxTx, Handlers))]_vars

\* A broker with two intents declared, the second with a duration that takes
\* the expiry beyond datetime.max, and one capability registered.
InitFar ==
    /\ now = 0
    /\ client_intents = <<ClientIntentDeclaration(None, "c1"),
                          ClientIntentDeclaration(Some(DatetimeMax + 1), "c1")>>
    /\ server_capabilities = <<ServerCapabilityDeclaration>>
    /\ active_contracts = <<>>
    /\ client_sessions = <<>>
    /\ contract_transactions = <<>>
    /\ negotiation_stats = [total_negotiations |-> 0,
                            successful_contracts |-> 0,
                            failed_negotiations |-> 0,
                            active_contracts |-> 0]
    /\ inflight = EmptyBag
    /\ ledger_history = <<>>
    /\ ret = NoReturn

\* Negotiations over the two intents, the returns of negotiate_intent_contract observed.
SpecFar ==
    InitFar /\ [][LET L == Limits(MaxTime, TwoNegotiations, MaxTx, {"negotiate_intent_contract"})
                  IN  Negotiate(L) \/ Serve(L)]_vars

----------------------------------------------------------------------------
(* Properties *)

\* C1: for every stored contract, in every reachable state under any
\* interleaving of the handlers, successful_transactions +
\* failed_transactions equals transaction_count.
C1_CountersAddUp ==
    \A c \in ContractIds :
        active_contracts[c].successful_transactions
            + active_contracts[c].failed_transactions
          = active_contracts[c].transaction_count

C1_Witness ==
    \E c \in ContractIds :
        /\ active_contracts[c].successful_transactions >= 2
        /\ active_contracts[c].failed_transactions >= 2

\* C2: in every reachable state, a contract whose violation_count is at
\* least 5 is not active.
C2_ThresholdDeactivates ==
    \A c \in ContractIds :
        active_contracts[c].violation_count >= 5 => ~active_contracts[c].is_active

C2_Witness ==
    \E c \in ContractIds : active_contracts[c].violation_count >= 5

\* C3: deactivation is permanent: no step of any handler takes a stored
\* contract from is_active = false back to is_active = true.
C3_NoResurrection ==
    [][\A c \in ContractIds :
          ~active_contracts[c].is_active => ~active_contracts'[c].is_active]_vars

\* a contract created active, inactive now, whose transaction was recorded as
\* valid after its expiry
C3_Witness ==
    \E c \in ContractIds :
        /\ ~active_contracts[c].is_active
        /\ active_contracts[c].compatibility_result # None
        /\ active_contracts[c].compatibility_result[1].status = COMPATIBLE
        /\ active_contracts[c].expires_at # None
        /\ active_contracts[c].successful_transactions = 1
        /\ active_contracts[c].last_validated[1] > active_contracts[c].expires_at[1]

\* C4: a validate_transaction call made on a stored contract after its
\* expires_at has passed returns an invalid verdict with suggested action
\* deny and leaves the contract with is_active = false, whether the contract
\* was active before the call or not.
C4_ExpiredIsDenied ==
    [][\A c \in ContractIds :
          ( /\ ValidateTransactionCall(SpecLimits, c)
            /\ active_contracts[c].expires_at # None
            /\ now > active_contracts[c].expires_at[1] )
          => /\ ret'.op = "validate_transaction"
             /\ ret'.contract_id = c
             /\ ret'.value.validation_result = INVALID
             /\ ret'.value.suggested_action = "deny"
             /\ ~active_contracts'[c].is_active]_vars

\* the call found the contract active and expired
C4_Witness ==
    /\ ret.op = "validate_transaction"
    /\ ret.value.risk_factors = <<"expired_contract">>
    /\ ret.value.suggested_action = "deny"
    /\ ~active_contracts[ret.contract_id].is_active

\* C5: no ledger holds more than 100 records, and a ledger is the last
\* min(n, 100) of the n records ever stored for its contract, in insertion
\* order.
C5_LedgerKeepsLast100 ==
    \A c \in DOMAIN contract_transactions :
        LET n == Len(ledger_history[c])
            first == IF n > 100 THEN n - 99 ELSE 1
        IN  /\ Len(contract_transactions[c]) <= 100
            /\ contract_transactions[c] = SubSeq(ledger_history[c], first, n)

\* more than 100 records were stored, and the oldest (the only suspicious one) is gone
C5_Witness ==
    \E c \in DOMAIN contract_transactions :
        /\ Len(ledger_history[c]) > 101
        /\ Len(contract_transactions[c]) = 100
        /\ ledger_history[c][1].validation_result = SUSPICIOUS
        /\ contract_transactions[c][1].validation_result = VALID

\* C6: when the request check of validate_bidirectional_transaction gives a
\* verdict that is not valid (an early exit included), no response check is
\* started and the handler returns that verdict as it is.
C6_FailFast ==
    [][/\ \A f \in BagToSet(inflight), o \in TransactionOutcomes :
            ( /\ BidirectionalRequestReturn(SpecLimits, f, o)
              /\ RequestValidation(o).validation_result # VALID )
            => /\ inflight' = inflight (-) SetToBag({f})
               /\ ret' = Returned("validate_bidirectional_transaction", f.contract_id,
                                  RequestValidation(o))
       /\ \A c \in 1..(Len(active_contracts) + 1), r \in Responses :
            ( /\ BidirectionalCall(SpecLimits, c, r)
              /\ EarlyExit(c, now) # "none" )
            => /\ inflight' = inflight
               /\ ret' = Returned("validate_bidirectional_transaction", c,
                                  FixedInvalid(EarlyExit(c, now)))]_vars

\* the Analyzer's suspicious request verdict came back from the bidirectional
\* handler, and no response check is under way
C6_Witness ==
    /\ ret.op = "validate_bidirectional_transaction"
    /\ ret.value.validation_result = SUSPICIOUS
    /\ ret.value.risk_factors = <<"anomaly">>
    /\ ret.value.client_protection = None
    /\ Pending({"validate_server_response"}) = 0
    /\ active_contracts[ret.contract_id].failed_transactions = 1

\* C7: when the response check started by validate_bidirectional_transaction
\* (request valid, response present) gives a verdict that is not valid, the
\* handler returns a suspicious verdict carrying the response verdict as
\* client_protection.
C7_ResponseEscalates ==
    [][\A f \in BagToSet(inflight), o \in ResponseOutcomes :
          ( /\ ValidateServerResponseReturn(SpecLimits, f, o)
            /\ f.caller = "bidirectional"
            /\ (IsRaise(o) \/ o.validation_result # VALID) )
          => /\ f.request_validation[1].validation_result = VALID
             /\ ret'.op = "validate_bidirectional_transaction"
             /\ ret'.value.validation_result = SUSPICIOUS
             /\ ret'.value.client_protection
                  = Some(IF IsRaise(o) THEN FixedInvalidResponse("validation_error") ELSE o)]_vars

C7_Witness ==
    /\ ret.op = "validate_bidirectional_transaction"
    /\ ret.value.validation_result = SUSPICIOUS
    /\ ret.value.client_protection # None
    /\ ret.value.client_protection[1].validation_result = INVALID
    /\ active_contracts[ret.contract_id].successful_transactions = 1

\* C8: a negotiation whose handles resolve and whose Analyzer verdict is
\* compatible stores and returns an active contract with the client's
\* purpose, the capability's operations and rate limits, the client's data
\* requirements, and the constraints of the client, of the Analyzer and of
\* the caller, in this order with duplicates kept.
C8_CompatibleTerms ==
    [][\A f \in BagToSet(inflight), o \in CompatibilityOutcomes :
          ( /\ NegotiateReturn(SpecLimits, f, o)
            /\ ~IsRaise(o)
            /\ o.status = COMPATIBLE )
          => LET contract_id == Len(active_contracts) + 1
                 contract == active_contracts'[contract_id]
             IN  /\ ret' = Returned("negotiate_intent_contract", contract_id,
                                    [contract_id |-> contract_id])
                 /\ contract.is_active
                 /\ contract.agreed_purpose = <<f.client_intent.purpose>>
                 /\ contract.allowed_operations = f.server_capability.supported_operations
                 /\ contract.data_access_scope = f.client_intent.data_requirements
                 /\ contract.rate_limits = f.server_capability.rate_limits
                 /\ contract.constraints
                      = f.client_intent.constraints \o o.suggested_constraints
                          \o f.additional_constraints]_vars

\* the caller's extra constraint repeats the client's, and both are kept
C8_Witness ==
    /\ ret.op = "negotiate_intent_contract"
    /\ ret.contract_id \in ContractIds
    /\ active_contracts[ret.contract_id].is_active
    /\ active_contracts[ret.contract_id].constraints = <<"read_only", "no_pii", "read_only">>

\* C9: every contract whose intent has a duration set has expires_at equal
\* to created_at + duration.
C9_ExpiryFromDuration ==
    \A c \in ContractIds :
        active_contracts[c].client_intent.duration # None
        => active_contracts[c].expires_at
             = Some(active_contracts[c].created_at
                      + active_contracts[c].client_intent.duration[1])

\* C10: with one call at a time and validate_transaction only, a contract
\* negotiated active and not expired, all of whose n validations got a verdict
\* that is not valid, has violation_count = min(n, 5) and is active exactly
\* when n < 5.
C10_FiveStrikes ==
    \A c \in ContractIds :
        LET contract == active_contracts[c]
            n == contract.transaction_count
        IN  ( /\ contract.compatibility_result # None
              /\ contract.compatibility_result[1].status = COMPATIBLE
              /\ (contract.expires_at = None \/ now <= contract.expires_at[1])
              /\ contract.successful_transactions = 0 )
            => /\ contract.violation_count = (IF n < 5 THEN n ELSE 5)
               /\ contract.is_active <=> n < 5

C10_Witness ==
    \E c \in ContractIds :
        /\ active_contracts[c].transaction_count = 5
        /\ active_contracts[c].successful_transactions = 0
        /\ active_contracts[c].violation_count = 5
        /\ ~active_contracts[c].is_active
        /\ (active_contracts[c].expires_at = None
              \/ now <= active_contracts[c].expires_at[1])

C12_NotFound ==
    [][\A i \in 1..(Len(client_intents) + 1), s \in 1..(Len(server_capabilities) + 1),
          a \in AdditionalConstraints :
          ( /\ NegotiateCall(SpecLimits, i, s, a)
            /\ (i \notin DOMAIN client_intents \/ s \notin DOMAIN server_capabilities) )
          => /\ ret'.op = "negotiate_intent_contract"
             /\ "raise" \in DOMAIN ret'.value
             /\ ret'.value.message =
                  (IF i \notin DOMAIN client_intents
                   THEN <<"Client intent not found: ", i>>
                   ELSE <<"Server capability not found: ", s>>)
             /\ inflight' = inflight
             /\ Len(active_contracts') = Len(active_contracts)
             /\ active_contracts' = active_contracts]_vars

\* the intent resolved, the capability did not
C12_Witness ==
    /\ ret.op = "negotiate_intent_contract"
    /\ "raise" \in DOMAIN ret.value
    /\ ret.value.message = <<"Server capability not found: ", 1>>
    /\ Len(client_intents) = 1
    /\ active_contracts = <<>>
    /\ inflight = EmptyBag

\* C13: a negotiation that fails because a handle does not resolve changes
\* no broker state: the contracts, the ledgers, the session index and the
\* four negotiation counters are after the call what they were before it.
C13_NotFoundChangesNothing ==
    [][\A i \in 1..(Len(client_intents) + 1), s \in 1..(Len(server_capabilities) + 1),
          a \in AdditionalConstraints :
          ( /\ NegotiateCall(SpecLimits, i, s, a)
            /\ (i \notin DOMAIN client_intents \/ s \notin DOMAIN server_capabilities) )
          => /\ active_contracts' = active_contracts
             /\ contract_transactions' = contract_transactions
             /\ client_sessions' = client_sessions
             /\ negotiation_stats'.total_negotiations = negotiation_stats.total_negotiations
             /\ negotiation_stats'.successful_contracts = negotiation_stats.successful_contracts
             /\ negotiation_stats'.failed_negotiations = negotiation_stats.failed_negotiations
             /\ negotiation_stats'.active_contracts = negotiation_stats.active_contracts]_vars

\* C14: validate_transaction on an unknown, an inactive or an expired
\* contract returns the fixed invalid verdict with confidence 0, the risk tag
\* of the case and action deny, starts no Analyzer call and changes nothing
\* but is_active of the expired contract; validate_server_response on an
\* unknown contract returns its fixed invalid/deny verdict and changes nothing.
C14_EarlyExits ==
    [][/\ \A c \in 1..(Len(active_contracts) + 1) :
            LET tag == IF c \notin ContractIds THEN "unknown_contract"
                       ELSE IF ~active_contracts[c].is_active THEN "inactive_contract"
                       ELSE IF /\ active_contracts[c].expires_at # None
                               /\ now > active_contracts[c].expires_at[1]
                            THEN "expired_contract"
                       ELSE "none"
            IN  (ValidateTransactionCall(SpecLimits, c) /\ tag # "none")
                => /\ ret'.op = "validate_transaction"
                   /\ ret'.contract_id = c
                   /\ ret'.value.validation_result = INVALID
                   /\ ret'.value.confidence_score = 0
                   /\ ret'.value.risk_factors = <<tag>>
                   /\ ret'.value.suggested_action = "deny"
                   /\ inflight' = inflight
                   /\ contract_transactions' = contract_transactions
                   /\ negotiation_stats' = negotiation_stats
                   /\ client_sessions' = client_sessions
                   /\ active_contracts' =
                        IF tag = "expired_contract"
                        THEN [active_contracts EXCEPT ![c].is_active = FALSE]
                        ELSE active_contracts
       /\ \A c \in 1..(Len(active_contracts) + 1) :
            (ValidateServerResponseCall(SpecLimits, c) /\ c \notin ContractIds)
            => /\ ret'.op = "validate_server_response"
               /\ ret'.value.validation_result = INVALID
               /\ ret'.value.confidence_score = 0
               /\ ret'.value.privacy_violations = <<"unknown_contract">>
               /\ ret'.value.suggested_action = "deny"
               /\ inflight' = inflight
               /\ active_contracts' = active_contracts
               /\ contract_transactions' = contract_transactions]_vars

\* a contract with one transaction on record, inactive, was asked again
C14_Witness ==
    /\ ret.op = "validate_transaction"
    /\ ret.value.risk_factors = <<"inactive_contract">>
    /\ ret.value.confidence_score = 0
    /\ ret.contract_id \in ContractIds
    /\ active_contracts[ret.contract_id].transaction_count = 1
    /\ inflight = EmptyBag

\* C15: with an Analyzer that fails every call, every contract negotiated
\* is inactive, and every validate_transaction, validate_server_response and
\* validate_bidirectional_transaction call returns a verdict, never an
\* exception, that is not valid and suggests deny.
C15_OutageDenies ==
    /\ \A c \in ContractIds : c > 1 => ~active_contracts[c].is_active
    /\ ret.op \in {"validate_transaction", "validate_server_response",
                   "validate_bidirectional_transaction"}
       => /\ "raise" \notin DOMAIN ret.value
          /\ ret.value.validation_result # VALID
          /\ ret.value.suggested_action = "deny"

\* the Analyzer raised under a validation of the contract that was still
\* active, and a negotiation during the outage left a second contract
C15_Witness ==
    /\ ret.op = "validate_bidirectional_transaction"
    /\ ret.value.risk_factors = <<"validation_error">>
    /\ Len(active_contracts) = 2
    /\ active_contracts[1].failed_transactions >= 1

\* C16: a contract whose expires_at has passed is not among the contracts
\* get_active_contracts returns and is not counted as active by
\* get_broker_stats, swept or not.
C16_ExpiredReadsInactive ==
    LET Expired(c) == /\ active_contracts[c].expires_at # None
                      /\ now > active_contracts[c].expires_at[1]
    IN  /\ \A c \in ContractIds : Expired(c) => c \notin get_active_contracts
        /\ get_broker_stats.active_contracts
             = Cardinality({c \in ContractIds :
                              active_contracts[c].is_active /\ ~Expired(c)})

\* C17: every entry of client_sessions names a stored contract whose
\* is_active is true, so get_contract_by_client returns no deactivated
\* contract.
C17_SessionsAreActive ==
    /\ \A client_id \in DOMAIN client_sessions :
          /\ client_sessions[client_id] \in ContractIds
          /\ active_contracts[client_sessions[client_id]].is_active
    /\ \A client_id \in ClientIds :
          get_contract_by_client(client_id) # None
          => get_contract_by_client(client_id)[1].is_active

\* C18: no client id has two stored contracts that are both active.
C18_OneLiveContractPerClient ==
    \A c, d \in ContractIds :
        ( /\ c # d
          /\ active_contracts[c].client_intent.client_id
               = active_contracts[d].client_intent.client_id )
        => ~(active_contracts[c].is_active /\ active_contracts[d].is_active)

\* C19: validate_server_response changes no stored contract and no ledger,
\* whatever its outcome: a valid or other verdict, an Analyzer failure, an
\* unknown contract.
C19_ResponseCheckReadsOnly ==
    [][/\ \A c \in 1..(Len(active_contracts) + 1) :
            ValidateServerResponseCall(SpecLimits, c)
            => /\ active_contracts' = active_contracts
               /\ contract_transactions' = contract_transactions
       /\ \A f \in BagToSet(inflight), o \in ResponseOutcomes :
            ValidateServerResponseReturn(SpecLimits, f, o)
            => /\ active_contracts' = active_contracts
               /\ contract_transactions' = contract_transactions]_vars

\* the Analyzer raised under a direct response check of an active contract
C19_Witness ==
    /\ ret.op = "validate_server_response"
    /\ ret.value.privacy_violations = <<"validation_error">>
    /\ ret.contract_id \in ContractIds
    /\ active_contracts[ret.contract_id].is_active
    /\ active_contracts[ret.contract_id].violation_count = 0

\* C20: when both handles resolve, negotiate_intent_contract does not raise
\* and stores the contract it returns; when the Analyzer call fails the
\* contract is inactive and the negotiation is counted as failed.
C20_NegotiationNeverRaises ==
    [][\A f \in BagToSet(inflight), o \in CompatibilityOutcomes :
          NegotiateReturn(Limits(MaxTime, TwoNegotiations, MaxTx,
                                 {"negotiate_intent_contract"}), f, o)
          => /\ "raise" \notin DOMAIN ret'.value
             /\ Len(active_contracts') = Len(active_contracts) + 1
             /\ ret'.value.contract_id = Len(active_contracts')
             /\ (IsRaise(o) \/ o.status = ANALYSIS_FAILED)
                => /\ ~active_contracts'[Len(active_contracts')].is_active
                   /\ negotiation_stats'.failed_negotiations
                        = negotiation_stats.failed_negotiations + 1]_vars

\* C21: every negotiation whose handles resolve stores exactly one new
\* contract, and no step removes a stored contract or changes which contract
\* an id names.
C21_ContractsAreKept ==
    [][/\ \A f \in BagToSet(inflight), o \in CompatibilityOutcomes :
            NegotiateReturn(Limits(MaxTime, TwoNegotiations, MaxTx,
                                   {"negotiate_intent_contract"}), f, o)
            => Len(active_contracts') = Len(active_contracts) + 1
       /\ \A c \in ContractIds :
            /\ c \in DOMAIN active_contracts'
            /\ active_contracts'[c].client_intent = active_contracts[c].client_intent
            /\ active_contracts'[c].created_at = active_contracts[c].created_at]_vars

C23_HighDriftDeactivates ==
    [][\A f \in BagToSet(inflight), o \in DriftOutcomes :
          AnalyzeIntentDriftReturn(SpecLimits, f, o) /\ ~IsRaise(o)
          => LET before == active_contracts[f.contract_id]
                 after == active_contracts'[f.contract_id]
             IN  /\ after.is_active
                      = (IF o.drift_severity = "high" THEN FALSE ELSE before.is_active)
                 /\ after.transaction_count = before.transaction_count
                 /\ after.successful_transactions = before.successful_transactions
                 /\ after.failed_transactions = before.failed_transactions
                 /\ after.violation_count = before.violation_count
                 /\ contract_transactions' = contract_transactions]_vars

\* C24: a validate_transaction whose Analyzer call fails is recorded like a
\* failed transaction: transaction_count, failed_transactions and
\* violation_count each grow by one, a record is appended to the ledger, and
\* an invalid verdict naming the failure is returned.
C24_FailureIsRecorded ==
    [][\A f \in BagToSet(inflight) :
          ValidateTransactionReturn(SpecLimits, f, Raise)
          => LET before == active_contracts[f.contract_id]
                 after == active_contracts'[f.contract_id]
             IN  /\ after.transaction_count = before.transaction_count + 1
                 /\ after.failed_transactions = before.failed_transactions + 1
                 /\ after.successful_transactions = before.successful_transactions
                 /\ after.violation_count = before.violation_count + 1
                 /\ Len(contract_transactions'[f.contract_id])
                      = Len(contract_transactions[f.contract_id]) + 1
                 /\ ret'.value.validation_result = INVALID
                 /\ ret'.value.risk_factors = <<"validation_error">>]_vars

\* C25: a sweep deactivates exactly the stored contracts that are expired and
\* still flagged active, changes nothing else on any contract, and returns
\* their number; after it no contract is both expired and flagged active; a
\* sweep from a state an earlier sweep left behind returns 0 and changes
\* nothing.
C25_SweepIsExact ==
    [][CleanupExpiredContracts(SweepLimits)
       => LET Due(contracts, c) ==
                  /\ contracts[c].is_active
                  /\ contracts[c].expires_at # None
                  /\ now > contracts[c].expires_at[1]
              due == {c \in ContractIds : Due(active_contracts, c)}
          IN  /\ DOMAIN active_contracts' = DOMAIN active_contracts
              /\ \A c \in ContractIds :
                    /\ active_contracts'[c].is_active
                         = (active_contracts[c].is_active /\ c \notin due)
                    /\ [active_contracts'[c] EXCEPT !.is_active = TRUE]
                         = [active_contracts[c] EXCEPT !.is_active = TRUE]
              /\ ret'.value.count = Cardinality(due)
              /\ \A c \in ContractIds : ~Due(active_contracts', c)
              /\ ( /\ due = {}
                   /\ negotiation_stats.active_contracts
                        = Cardinality({c \in ContractIds : active_contracts[c].is_active}) )
                 => /\ ret'.value.count = 0
                    /\ UNCHANGED <<now, client_intents, server_capabilities,
                                   active_contracts, client_sessions,
                                   contract_transactions, negotiation_stats,
                                   inflight, ledger_history>>]_vars

\* one pass has swept two contracts
C25_Witness ==
    /\ ret.op = "cleanup_expired_contracts"
    /\ ret.value.count = 2
    /\ \A c \in ContractIds : ~active_contracts[c].is_active

\* C26: after every sweep the stored active-contract counter equals the
\* number of stored contracts flagged active, whatever the counter was before.
C26_CounterRecomputed ==
    [][CleanupExpiredContracts(SweepLimits)
       => negotiation_stats'.active_contracts
            = Cardinality({c \in DOMAIN active_contracts' :
                              active_contracts'[c].is_active})]_vars

\* Two contracts were counted active and both have expired; the last sweep
\* found only one of them to deactivate, the other having been deactivated by
\* a validation that left the counter alone, and the counter reads 0.
C26_Witness ==
    /\ ret.op = "cleanup_expired_contracts"
    /\ ret.value.count = 1
    /\ negotiation_stats.successful_contracts = 2
    /\ negotiation_stats.active_contracts = 0
    /\ \A c \in ContractIds :
          /\ ~active_contracts[c].is_active
          /\ active_contracts[c].expires_at # None
          /\ now > active_contracts[c].expires_at[1]

\* C27: immediately after a sweep no Session Index entry refers to a contract
\* whose expires_at has passed, whether the sweep or an earlier validation
\* deactivated it.
C27_SweepClearsSessions ==
    [][CleanupExpiredContracts(SweepLimits)
       => \A client_id \in DOMAIN client_sessions' :
             LET contract == active_contracts'[client_sessions'[client_id]]
             IN  ~(contract.expires_at # None /\ now > contract.expires_at[1])]_vars

\* C28: a validation and a sweep that meet on an expired contract still
\* flagged active.  Whichever of the two runs first makes the transition
\* to inactive, in one step that is not a step of the other, and leaves the
\* contract no longer due: a validation that comes first returns the
\* expired_contract verdict, a sweep that comes first counts the contract,
\* and a sweep counts no contract a validation has deactivated before it.  No
\* sweep is ever suspended, so no sweep runs inside another.
C28_OneTransition ==
    /\ [][\A c \in ContractIds :
            LET Due(contracts, d) ==
                    /\ contracts[d].is_active
                    /\ contracts[d].expires_at # None
                    /\ now > contracts[d].expires_at[1]
                validates == ValidateTransactionCall(SweepLimits, c)
                sweeps == CleanupExpiredContracts(SweepLimits)
            IN  /\ Due(active_contracts, c) /\ validates
                   => /\ ~sweeps
                      /\ ~active_contracts'[c].is_active
                      /\ ret' = Returned("validate_transaction", c,
                                         [validation_result |-> INVALID,
                                          confidence_score |-> 0,
                                          risk_factors |-> <<"expired_contract">>,
                                          suggested_action |-> "deny",
                                          client_protection |-> None])
                /\ Due(active_contracts, c) /\ sweeps
                   => /\ ~validates
                      /\ ~active_contracts'[c].is_active
                      /\ ret'.value.count >= 1
                /\ sweeps
                   => ret'.value.count
                        = Cardinality({d \in ContractIds : Due(active_contracts, d)})
                /\ ~Due(active_contracts, c) /\ (validates \/ sweeps)
                   => active_contracts'[c] = active_contracts[c]]_vars
    /\ [](\A f \in BagToSet(inflight) : f.op # "cleanup_expired_contracts")

\* a validation has just made the transition on one expired contract while
\* another expired contract is still waiting for the sweep
C28_Witness ==
    /\ ret.op = "validate_transaction"
    /\ ret.value.risk_factors = <<"expired_contract">>
    /\ ~active_contracts[ret.contract_id].is_active
    /\ \E d \in ContractIds :
          /\ d # ret.contract_id
          /\ active_contracts[d].is_active
          /\ active_contracts[d].expires_at # None
          /\ now > active_contracts[d].expires_at[1]

\* C29: stored declarations are never mutated.  No step changes the
\* constraints or data_requirements of a registered intent or the
\* supported_operations or rate_limits of a registered capability, and no
\* step, a further negotiation from the same declarations included, changes
\* the terms of a stored contract.
C29_DeclarationsAreFrozen ==
    [][/\ \A i \in DOMAIN client_intents :
             /\ i \in DOMAIN client_intents'
             /\ client_intents'[i].constraints = client_intents[i].constraints
             /\ client_intents'[i].data_requirements = client_intents[i].data_requirements
       /\ \A s \in DOMAIN server_capabilities :
             /\ s \in DOMAIN server_capabilities'
             /\ server_capabilities'[s].supported_operations
                  = server_capabilities[s].supported_operations
             /\ server_capabilities'[s].rate_limits = server_capabilities[s].rate_limits
       /\ \A c \in ContractIds :
             /\ c \in DOMAIN active_contracts'
             /\ active_contracts'[c].client_intent = active_contracts[c].client_intent
             /\ active_contracts'[c].server_capability = active_contracts[c].server_capability
             /\ active_contracts'[c].agreed_purpose = active_contracts[c].agreed_purpose
             /\ active_contracts'[c].constraints = active_contracts[c].constraints
             /\ active_contracts'[c].allowed_operations = active_contracts[c].allowed_operations
             /\ active_contracts'[c].data_access_scope = active_contracts[c].data_access_scope
             /\ active_contracts'[c].rate_limits = active_contracts[c].rate_limits]_vars

\* two contracts negotiated from the same declarations carry different
\* constraints, both longer than the declaration's, and one has been used
C29_Witness ==
    /\ Len(active_contracts) = 2
    /\ active_contracts[1].client_intent = active_contracts[2].client_intent
    /\ active_contracts[1].constraints # active_contracts[2].constraints
    /\ Len(active_contracts[1].constraints) > Len(client_intents[1].constraints)
    /\ Len(active_contracts[2].constraints) > Len(client_intents[1].constraints)
    /\ client_intents[1] = active_contracts[1].client_intent
    /\ \E c \in ContractIds : active_contracts[c].transaction_count > 0

\* C30: the contract a negotiation stores is active exactly when the
\* Analyzer's status is compatible.  requires_negotiation gives an inactive
\* contract whose agreed_purpose is the client's purpose behind the pending
\* prefix; incompatible and analysis_failed give an inactive contract marked
\* rejected, a raising Analyzer one marked failed; the Session Index gets an
\* entry for the new contract only when it is active.
C30_ActiveIffCompatible ==
    [][\A f \in BagToSet(inflight), o \in CompatibilityOutcomes :
          NegotiateReturn(Limits(MaxTime, TwoNegotiations, MaxTx, {}), f, o)
          => LET contract_id == Len(active_contracts) + 1
                 contract == active_contracts'[contract_id]
                 purpose == f.client_intent.purpose
                 compatible == ~IsRaise(o) /\ o.status = COMPATIBLE
             IN  /\ Len(active_contracts') = contract_id
                 /\ contract.is_active = compatible
                 /\ compatible => contract.agreed_purpose = <<purpose>>
                 /\ ~IsRaise(o) /\ o.status = REQUIRES_NEGOTIATION
                    => contract.agreed_purpose = <<"PENDING: ", purpose>>
                 /\ ~IsRaise(o) /\ o.status \in {INCOMPATIBLE, ANALYSIS_FAILED}
                    => contract.agreed_purpose = <<"REJECTED: ", purpose>>
                 /\ IsRaise(o) => contract.agreed_purpose[1] = "FAILED: "
                 /\ \A client_id \in DOMAIN client_sessions' :
                       IF compatible /\ client_id = f.client_intent.client_id
                       THEN client_sessions'[client_id] = contract_id
                       ELSE /\ client_id \in DOMAIN client_sessions
                            /\ client_sessions'[client_id] = client_sessions[client_id]
                 /\ compatible => f.client_intent.client_id \in DOMAIN client_sessions']_vars

\* a pending and a rejected or failed contract are stored, and the Session
\* Index is empty
C30_Witness ==
    /\ Len(active_contracts) = 2
    /\ \E c \in ContractIds :
          /\ active_contracts[c].agreed_purpose[1] = "PENDING: "
          /\ ~active_contracts[c].is_active
    /\ \E c \in ContractIds :
          /\ active_contracts[c].agreed_purpose[1] \in {"REJECTED: ", "FAILED: "}
          /\ ~active_contracts[c].is_active
    /\ DOMAIN client_sessions = {}

\* C31: the negotiation counters classify every negotiation.  A negotiation
\* that returns adds one to successful_contracts exactly when the Analyzer's
\* status is compatible, one to failed_negotiations exactly when it is
\* incompatible or analysis_failed or the Analyzer raised, and neither for
\* requires_negotiation; no other step changes the two counters; in every
\* state successful_contracts + failed_negotiations and the number of stored
\* contracts are at most total_negotiations.
C31_CountersClassify ==
    /\ [](/\ negotiation_stats.successful_contracts + negotiation_stats.failed_negotiations
               <= negotiation_stats.total_negotiations
          /\ Len(active_contracts) <= negotiation_stats.total_negotiations)
    /\ [][/\ \A f \in BagToSet(inflight), o \in CompatibilityOutcomes :
                NegotiateReturn(Limits(MaxTime, TwoNegotiations, MaxTx, {}), f, o)
                => LET compatible == ~IsRaise(o) /\ o.status = COMPATIBLE
                       failed == IsRaise(o) \/ o.status \in {INCOMPATIBLE, ANALYSIS_FAILED}
                   IN  /\ negotiation_stats'.successful_contracts
                            = negotiation_stats.successful_contracts
                                + (IF compatible THEN 1 ELSE 0)
                       /\ negotiation_stats'.failed_negotiations
                            = negotiation_stats.failed_negotiations
                                + (IF failed THEN 1 ELSE 0)
                       /\ negotiation_stats'.total_negotiations
                            = negotiation_stats.total_negotiations
          /\ Pending({"negotiate_intent_contract"}) <= Pending({"negotiate_intent_contract"})'
             => /\ negotiation_stats'.successful_contracts
                     = negotiation_stats.successful_contracts
                /\ negotiation_stats'.failed_negotiations
                     = negotiation_stats.failed_negotiations]_vars

\* two negotiations have returned, one compatible and one requiring
\* negotiation: one success, no failure, two contracts
C31_Witness ==
    /\ negotiation_stats.total_negotiations = 2
    /\ negotiation_stats.successful_contracts = 1
    /\ negotiation_stats.failed_negotiations = 0
    /\ Len(active_contracts) = 2
    /\ \E c \in ContractIds : active_contracts[c].agreed_purpose[1] = "PENDING: "

\* C32: when the response verdict of a bidirectional validation is not
\* valid, the outer verdict's suggested action is the response verdict's and
\* its risk factors are those the response verdict lists.
C32_OverwrittenFromResponse ==
    [][\A f \in BagToSet(inflight), o \in ResponseOutcomes :
          ( /\ ValidateServerResponseReturn(SpecLimits, f, o)
            /\ f.caller = "bidirectional"
            /\ ~IsRaise(o)
            /\ o.validation_result # VALID )
          => /\ ret'.op = "validate_bidirectional_transaction"
             /\ ret'.value.suggested_action = o.suggested_action
             /\ ret'.value.risk_factors = o.privacy_violations]_vars

\* C33: response inspection is not tallied.  The request half of a
\* bidirectional validation changes the contract's counters and ledger as a
\* validate_transaction with the same Analyzer outcome does: one transaction,
\* a success exactly when the verdict is valid, else a failure and a
\* violation, and one ledger record per verdict.  The response half changes
\* no contract and no ledger, so a valid request whose response check fails
\* stays counted once, as a success, with violation_count as it was.
C33_ResponseNotTallied ==
    [][\A f \in BagToSet(inflight) :
          /\ \A o \in TransactionOutcomes :
                BidirectionalRequestReturn(SpecLimits, f, o)
                => LET before == active_contracts[f.contract_id]
                       after == active_contracts'[f.contract_id]
                       valid == ~IsRaise(o) /\ o.validation_result = VALID
                   IN  /\ after.transaction_count = before.transaction_count + 1
                       /\ after.successful_transactions
                            = before.successful_transactions + (IF valid THEN 1 ELSE 0)
                       /\ after.failed_transactions
                            = before.failed_transactions + (IF valid THEN 0 ELSE 1)
                       /\ after.violation_count
                            = before.violation_count + (IF valid THEN 0 ELSE 1)
                       /\ Len(contract_transactions'[f.contract_id])
                            = Len(contract_transactions[f.contract_id])
                                + (IF IsRaise(o) THEN 0 ELSE 1)
                       /\ \A c \in ContractIds \ {f.contract_id} :
                             active_contracts'[c] = active_contracts[c]
          /\ \A o \in ResponseOutcomes :
                ValidateServerResponseReturn(SpecLimits, f, o) /\ f.caller = "bidirectional"
                => /\ active_contracts' = active_contracts
                   /\ contract_transactions' = contract_transactions
                   /\ (IsRaise(o) \/ o.validation_result # VALID)
                      => ret'.value.validation_result = SUSPICIOUS]_vars

\* a bidirectional validation has returned suspicious because of its
\* response; the contract shows one successful transaction and no violation
C33_Witness ==
    /\ ret.op = "validate_bidirectional_transaction"
    /\ ret.value.validation_result = SUSPICIOUS
    /\ ret.value.client_protection # None
    /\ ret.contract_id \in ContractIds
    /\ active_contracts[ret.contract_id].transaction_count = 1
    /\ active_contracts[ret.contract_id].successful_transactions = 1
    /\ active_contracts[ret.contract_id].failed_transactions = 0
    /\ active_contracts[ret.contract_id].violation_count = 0
    /\ Len(contract_transactions[ret.contract_id]) = 1
    /\ contract_transactions[ret.contract_id][1].validation_result = VALID

C35_ExpiredEventuallyInactive ==
    \A c \in 1..TwoNegotiations :
        ( /\ c \in ContractIds
          /\ active_contracts[c].expires_at # None
          /\ now > active_contracts[c].expires_at[1] )
        ~> ( /\ c \in ContractIds
             /\ ~active_contracts[c].is_active )

\* the sweep has deactivated the one stored contract, which no validation
\* ever touched
C35_Witness ==
    /\ ret.op = "cleanup_expired_contracts"
    /\ ret.value.count = 1
    /\ Len(active_contracts) = 1
    /\ ~active_contracts[1].is_active
    /\ active_contracts[1].expires_at # None
    /\ now > active_contracts[1].expires_at[1]
    /\ active_contracts[1].transaction_count = 0
    /\ inflight = EmptyBag

\* C36: violation_count never exceeds the threshold of 5 on any contract,
\* however the Analyzer waits of concurrent validations overlap.
C36_ThresholdIsACeiling ==
    \A c \in ContractIds : active_contracts[c].violation_count <= ViolationThreshold

\* C37: validate_transaction commits nothing on a contract that is inactive
\* or expired when the Analyzer call returns: the verdict it returns is not
\* valid, and the contract's counters and ledger stay as they were.
C37_NoCommitOnDeadContract ==
    [][\A f \in BagToSet(inflight), o \in TransactionOutcomes :
          LET contract == active_contracts[f.contract_id]
          IN  ( /\ ValidateTransactionReturn(SpecLimits, f, o)
                /\ \/ ~contract.is_active
                   \/ contract.expires_at # None /\ now > contract.expires_at[1] )
              => /\ ret'.value.validation_result # VALID
                 /\ active_contracts'[f.contract_id] = contract
                 /\ contract_transactions'[f.contract_id]
                      = contract_transactions[f.contract_id]]_vars

\* C38: contracts are isolated.  A step of validate_transaction,
\* validate_bidirectional_transaction or analyze_intent_drift on one contract
\* leaves every other stored contract (counters, violation_count, is_active,
\* expires_at) and every other ledger as it was, also when the contracts
\* come from the same intent and client.
C38_ContractsAreIsolated ==
    [][\A a \in ContractIds :
          LET L == Limits(MaxTime, TwoNegotiations, MaxTx, {})
              on_a ==
                  \/ ValidateTransactionCall(L, a)
                  \/ \E r \in Responses : BidirectionalCall(L, a, r)
                  \/ \E w \in Windows : AnalyzeIntentDriftCall(L, a, w)
                  \/ \E f \in BagToSet(inflight) :
                        \/ \E o \in TransactionOutcomes :
                              /\ \/ ValidateTransactionReturn(L, f, o)
                                 \/ BidirectionalRequestReturn(L, f, o)
                              /\ f.contract_id = a
                        \/ \E o \in ResponseOutcomes :
                              /\ ValidateServerResponseReturn(L, f, o)
                              /\ f.caller = "bidirectional"
                              /\ f.contract_id = a
                        \/ \E o \in DriftOutcomes :
                              /\ AnalyzeIntentDriftReturn(L, f, o)
                              /\ f.contract_id = a
              Ledgers(transactions, b) ==
                  IF b \in DOMAIN transactions THEN Some(transactions[b]) ELSE None
          IN  \A b \in ContractIds \ {a} :
                  ( \/ active_contracts'[b] # active_contracts[b]
                    \/ Ledgers(contract_transactions', b) # Ledgers(contract_transactions, b) )
                  => ~on_a]_vars

\* of two contracts negotiated from the same intent, one has a violation and
\* was deactivated, the other is active and untouched
C38_Witness ==
    /\ Len(active_contracts) = 2
    /\ active_contracts[1].client_intent = active_contracts[2].client_intent
    /\ \E a, b \in ContractIds :
          /\ a # b
          /\ active_contracts[a].transaction_count = 1
          /\ active_contracts[a].violation_count = 1
          /\ ~active_contracts[a].is_active
          /\ Len(contract_transactions[a]) = 1
          /\ active_contracts[b].is_active
          /\ active_contracts[b].transaction_count = 0
          /\ active_contracts[b].violation_count = 0
          /\ contract_transactions[b] = <<>>

\* C39: in every state the active-contract figure of get_broker_stats is the
\* number of stored contracts flagged active, and total_contracts is the
\* number of stored contracts.
C39_StatsCountFlags ==
    /\ get_broker_stats.active_contracts
         = Cardinality({c \in DOMAIN active_contracts : active_contracts[c].is_active})
    /\ get_broker_stats.total_contracts = Cardinality(DOMAIN active_contracts)

\* a contract was deactivated outside the sweep: the stored counter still
\* counts it, the reported figure does not
C39_Witness ==
    /\ Len(active_contracts) = 1
    /\ ~active_contracts[1].is_active
    /\ negotiation_stats.active_contracts = 1
    /\ get_broker_stats.active_contracts = 0
    /\ get_broker_stats.total_contracts = 1

====
